---------------------------- MODULE Spec2Model ----------------------------
(* A model of the R2 dataset mirror: r2_sync_worker/sync.py (sync_dataset,  *)
(* dataset_status) run against a local filesystem and an S3-style object    *)
(* store, and of rp_handler.py's own download (_sync_from_r2) and job loop  *)
(* (run_jobs).  Strings are sequences of one-character strings, so that     *)
(* str.lstrip, str.endswith, slicing and pathlib's splitting are computed   *)
(* as the code computes them.  A path is a sequence of segments.            *)
EXTENDS Integers, Sequences, FiniteSets, TLC

(***************************************************************************)
(* Bounds of the model.                                                    *)
(***************************************************************************)
\* the most objects one listing delivers
MaxObjects == 2
\* the most objects one listing page holds
MaxPage == 2

(***************************************************************************)
(* Strings.                                                                *)
(***************************************************************************)
SLASH == "/"
DOT == "."

\* the marker file names of sync.py
SYNC_COMPLETE == <<".", "s", "y", "n", "c", "_", "c", "o", "m", "p", "l", "e", "t", "e">>
SYNC_IN_PROGRESS ==
    <<".", "s", "y", "n", "c", "_", "i", "n", "_", "p", "r", "o", "g", "r", "e", "s", "s">>

\* s[n:] of Python
DropFirst(s, n) == SubSeq(s, n + 1, Len(s))

\* s.startswith(pre)
StartsWith(s, pre) == Len(s) >= Len(pre) /\ SubSeq(s, 1, Len(pre)) = pre

\* s.endswith("/")
EndsWithSlash(s) == Len(s) > 0 /\ s[Len(s)] = SLASH

\* s.lstrip("/")
RECURSIVE LStripSlash(_)
LStripSlash(s) ==
    IF Len(s) > 0 /\ s[1] = SLASH THEN LStripSlash(Tail(s)) ELSE s

\* a mutant of _normalize_prefix: the leading slashes are kept
NormalizePrefixNoStrip(prefix) ==
    IF Len(prefix) > 0 /\ ~EndsWithSlash(prefix) THEN prefix \o <<SLASH>> ELSE prefix

\* _normalize_prefix
NormalizePrefix(prefix) ==
    LET stripped == LStripSlash(prefix)
    IN  IF Len(stripped) > 0 /\ ~EndsWithSlash(stripped)
        THEN stripped \o <<SLASH>>
        ELSE stripped

\* rel_key = key[len(prefix):].lstrip("/")
RelKey(prefix, key) == LStripSlash(DropFirst(key, Len(prefix)))

(***************************************************************************)
(* Paths.  pathlib splits a string at "/", dropping empty segments and     *)
(* "." segments; ".." segments are kept and resolved by the operating      *)
(* system when the path is used.                                           *)
(***************************************************************************)
RECURSIVE SplitAt(_, _, _)
SplitAt(s, cur, acc) ==
    LET flush == IF cur = <<>> \/ cur = <<DOT>> THEN acc ELSE Append(acc, cur)
    IN  IF s = <<>> THEN flush
        ELSE IF Head(s) = SLASH THEN SplitAt(Tail(s), <<>>, flush)
        ELSE SplitAt(Tail(s), Append(cur, Head(s)), acc)

\* the segments of a relative path string
Segments(s) == SplitAt(s, <<>>, <<>>)

DOTDOT == <<DOT, DOT>>

\* the directory a path names once every ".." has been followed; "/.." is "/"
RECURSIVE ResolveFrom(_, _)
ResolveFrom(segs, acc) ==
    IF segs = <<>> THEN acc
    ELSE IF Head(segs) = DOTDOT
         THEN ResolveFrom(Tail(segs),
                          IF acc = <<>> THEN acc ELSE SubSeq(acc, 1, Len(acc) - 1))
         ELSE ResolveFrom(Tail(segs), Append(acc, Head(segs)))

Resolve(path) == ResolveFrom(path, <<>>)

\* path.parent
Parent(path) == SubSeq(path, 1, Len(path) - 1)

\* path lies in the subtree of base (base included)
IsUnder(path, base) == Len(path) >= Len(base) /\ SubSeq(path, 1, Len(base)) = base

(***************************************************************************)
(* The environment: the dataset root, the dataset ids callers use, the     *)
(* prefixes they pass and the objects the bucket may hold.                 *)
(***************************************************************************)
\* settings.dataset_root, an existing directory
DATASET_ROOT == << <<"r">> >>

\* dataset ids (path-safe: one segment each)
D == <<"d">>
E == <<"e">>
Datasets == {D, E}

\* the prefixes callers pass: "p", "p/", "/p"
RawPrefixes == { <<"p">>, <<"p", SLASH>>, <<SLASH, "p">> }

P == <<"p", SLASH>>

\* the objects a bucket may hold: the placeholders of "p/" and of a
\* directory under it, an ordinary object, objects named like the two marker
\* files, an object whose key climbs out of the dataset directory, and an
\* object outside "p/"
Objects ==
    { [Key |-> P, Size |-> 0],
      [Key |-> P \o <<"s", SLASH>>, Size |-> 0],
      [Key |-> P \o <<"a">>, Size |-> 1],
      [Key |-> P \o SYNC_COMPLETE, Size |-> 2],
      [Key |-> P \o SYNC_IN_PROGRESS, Size |-> 4],
      [Key |-> P \o DOTDOT \o <<SLASH>> \o E \o <<SLASH>> \o SYNC_IN_PROGRESS,
       Size |-> 8],
      [Key |-> <<"p", "q">>, Size |-> 16] }

\* the calls that may run; the sequential specification runs one at a time
Procs == {1, 2}
SeqProcs == {1}

\* local_path = dataset_root / dataset_id
local_path(dataset_id) == DATASET_ROOT \o Segments(dataset_id)

\* marker_file = local_path / ".sync_complete"
marker_file(dataset_id) == local_path(dataset_id) \o Segments(SYNC_COMPLETE)

\* temp_marker = local_path / ".sync_in_progress"
temp_marker(dataset_id) == local_path(dataset_id) \o Segments(SYNC_IN_PROGRESS)

(***************************************************************************)
(* State.                                                                  *)
(***************************************************************************)
VARIABLES
    dirs,           \* the directories of the filesystem (resolved paths)
    files,          \* the files of the filesystem: resolved path -> content
    pc,             \* pc[p]: where call p stands in sync_dataset
    req,            \* req[p]: the arguments of call p
    prefix,         \* prefix[p]: the local `prefix`, normalized by line 60
    page,           \* page[p]: the objects of the current page still to visit
    listed,         \* listed[p]: the objects the listing has delivered so far
    bytes_written,  \* bytes_written[p]
    object_count,   \* object_count[p]
    exc,            \* exc[p]: the exception caught at line 84, if any
    result,         \* result[p]: what the call returned or raised
    touched,        \* touched[p]: the paths call p created or wrote
    wiped,          \* wiped[p]: line 57 ran: local_path was removed
    passed,         \* passed[p]: the prefix argument as it was passed, where
                    \* the specification observes it
    storeCalls,     \* storeCalls[p]: the listing and download calls p issued
    statusOut,      \* the answer of the latest dataset_status query
    rj              \* the run_jobs call of rp_handler.py: its arguments, its
                    \* locals and what it returned or raised

vars == <<dirs, files, pc, req, prefix, page, listed, bytes_written,
          object_count, exc, result, touched, wiped, passed, storeCalls,
          statusOut, rj>>

fsVars == <<dirs, files>>

NoReq == [dataset_id |-> <<>>, overwrite |-> FALSE]
NoExc == [type |-> "None", msg |-> ""]
NoResult == [kind |-> "none"]
NoStatus == [asked |-> FALSE]
NoCalls == [list |-> 0, download |-> 0]

\* no run_jobs call is running
NoRun == [pc |-> "idle"]

\* Path.exists()
Exists(path) == path \in dirs \/ path \in DOMAIN files

\* f with key k bound to v
Put(f, k, v) == [x \in DOMAIN f \cup {k} |-> IF x = k THEN v ELSE f[x]]

\* f without the keys in ks
Without(f, ks) == [x \in DOMAIN f \ ks |-> f[x]]

\* the content a download of `key` leaves in a file
Downloaded(key) == [src |-> "object", key |-> key]

\* the content write_text leaves in a marker file
Text(t) == [src |-> "text", text |-> t]

\* Path.mkdir(parents=True, exist_ok=True): every ancestor in turn is made a
\* directory; the call fails at the first one that is a file, keeping the
\* directories made before it
RECURSIVE MkdirFrom(_, _, _)
MkdirFrom(path, i, ds) ==
    IF i > Len(path) THEN [ok |-> TRUE, dirs |-> ds]
    ELSE LET r == Resolve(SubSeq(path, 1, i))
         IN  IF r \in DOMAIN files THEN [ok |-> FALSE, dirs |-> ds]
             ELSE MkdirFrom(path, i + 1, ds \cup {r})

MkdirParents(path) == MkdirFrom(path, 1, dirs)

\* a file can be written at path: its directory exists and path is no directory
Writable(path, ds) == Parent(path) \in ds /\ path \notin ds

\* raise SyncError(str(exc))
SyncError(e) == [kind |-> "raise", type |-> "SyncError", msg |-> e.msg]

\* an exception that leaves sync_dataset as it is
Raw(e) == [kind |-> "raise", type |-> e.type, msg |-> e.msg]

OSError(what) == [type |-> "OSError", msg |-> what]
ClientError(what) == [type |-> "ClientError", msg |-> what]

Init ==
    /\ dirs = { <<>>, DATASET_ROOT }
    /\ files = [x \in {} |-> x]
    /\ pc = [p \in Procs |-> "idle"]
    /\ req = [p \in Procs |-> NoReq]
    /\ prefix = [p \in Procs |-> <<>>]
    /\ page = [p \in Procs |-> {}]
    /\ listed = [p \in Procs |-> {}]
    /\ bytes_written = [p \in Procs |-> 0]
    /\ object_count = [p \in Procs |-> 0]
    /\ exc = [p \in Procs |-> NoExc]
    /\ result = [p \in Procs |-> NoResult]
    /\ touched = [p \in Procs |-> {}]
    /\ wiped = [p \in Procs |-> FALSE]
    /\ passed = [p \in Procs |-> <<>>]
    /\ storeCalls = [p \in Procs |-> NoCalls]
    /\ statusOut = NoStatus
    /\ rj = NoRun

(***************************************************************************)
(* sync_dataset, one action per step of the call.                          *)
(***************************************************************************)
Set(f, p, v) == [f EXCEPT ![p] = v]

\* the answer of an object store that holds `objs` to a listing with
\* Prefix=pre: the keys under it
MatchingIn(objs, pre) == { o \in objs : StartsWith(o.Key, pre) }

\* the same for a store that may hold any of Objects
Matching(pre) == MatchingIn(Objects, pre)

\* a mutant of line 47: the `not` is lost
AlreadySyncedInverted(dataset_id, overwrite) ==
    Exists(marker_file(dataset_id)) /\ overwrite

\* line 47: marker_file.exists() and not overwrite
AlreadySynced(dataset_id, overwrite) ==
    Exists(marker_file(dataset_id)) /\ ~overwrite

\* a mutant of line 56: the completion marker is tested, not local_path
ShouldWipeIfComplete(dataset_id, overwrite) ==
    Exists(marker_file(dataset_id)) /\ overwrite

\* a mutant of line 56: the overwrite flag is not looked at
ShouldWipeAlways(dataset_id, overwrite) ==
    Exists(local_path(dataset_id))

\* line 56: local_path.exists() and overwrite
ShouldWipe(dataset_id, overwrite) ==
    Exists(local_path(dataset_id)) /\ overwrite

\* lines 42-54: the arguments are bound and the completion marker is looked
\* up; an existing marker without overwrite returns at once
Start(p, dataset_id, raw, overwrite, observe) ==
    /\ pc[p] = "idle"
    /\ req' = Set(req, p, [dataset_id |-> dataset_id, overwrite |-> overwrite])
    /\ prefix' = Set(prefix, p, raw)
    /\ passed' = Set(passed, p, IF observe THEN raw ELSE <<>>)
    /\ IF AlreadySynced(dataset_id, overwrite)
       THEN /\ pc' = Set(pc, p, "done")
            /\ result' = Set(result, p,
                   [kind |-> "return", datasetId |-> dataset_id,
                    localPath |-> local_path(dataset_id), alreadySynced |-> TRUE,
                    bytesWritten |-> 0, objectCount |-> 0])
       ELSE /\ pc' = Set(pc, p, "rmtree")
            /\ UNCHANGED result
    /\ statusOut' = NoStatus
    /\ UNCHANGED rj
    /\ UNCHANGED <<fsVars, page, listed, bytes_written, object_count,
                   exc, touched, wiped, storeCalls>>

\* an exception outside the try block leaves the call as it is
RaiseRaw(p, e) ==
    /\ pc' = Set(pc, p, "done")
    /\ result' = Set(result, p, Raw(e))

\* lines 56-57: with overwrite, an existing local_path is removed with all
\* that is under it; shutil.rmtree may fail
Rmtree(p) ==
    LET lp == local_path(req[p].dataset_id)
        gone == { x \in dirs \cup DOMAIN files : IsUnder(x, lp) }
    IN  /\ pc[p] = "rmtree"
        /\ statusOut' = NoStatus
        /\ UNCHANGED rj
        /\ UNCHANGED <<req, prefix, page, listed, bytes_written, object_count,
                       exc, touched, passed, storeCalls>>
        /\ IF ShouldWipe(req[p].dataset_id, req[p].overwrite)
           THEN \/ /\ lp \in dirs
                   /\ dirs' = dirs \ gone
                   /\ files' = Without(files, gone)
                   /\ wiped' = Set(wiped, p, TRUE)
                   /\ pc' = Set(pc, p, "mkdir")
                   /\ UNCHANGED result
                \/ /\ RaiseRaw(p, OSError("rmtree"))
                   /\ UNCHANGED <<fsVars, wiped>>
           ELSE /\ pc' = Set(pc, p, "mkdir")
                /\ UNCHANGED <<fsVars, wiped, result>>

\* line 58: local_path.mkdir(parents=True, exist_ok=True)
MkdirLocal(p) ==
    LET lp == local_path(req[p].dataset_id)
        made == MkdirParents(lp)
    IN  /\ pc[p] = "mkdir"
        /\ statusOut' = NoStatus
        /\ UNCHANGED rj
        /\ UNCHANGED <<files, req, prefix, page, listed, bytes_written,
                       object_count, exc, wiped, passed, storeCalls>>
        /\ \/ /\ made.ok
              /\ dirs' = made.dirs
              /\ touched' = Set(touched, p, touched[p] \cup (made.dirs \ dirs))
              /\ pc' = Set(pc, p, "mark")
              /\ UNCHANGED result
           \/ /\ RaiseRaw(p, OSError("mkdir"))
              /\ UNCHANGED <<dirs, touched>>

\* lines 60-66: the prefix is normalized, the counters are zeroed and the
\* in-progress marker is written
MarkInProgress(p) ==
    LET tm == temp_marker(req[p].dataset_id)
    IN  /\ pc[p] = "mark"
        /\ statusOut' = NoStatus
        /\ UNCHANGED rj
        /\ UNCHANGED <<dirs, req, page, listed, exc, wiped, passed, storeCalls>>
        /\ prefix' = Set(prefix, p, NormalizePrefix(prefix[p]))
        /\ bytes_written' = Set(bytes_written, p, 0)
        /\ object_count' = Set(object_count, p, 0)
        /\ \/ /\ Writable(tm, dirs)
              /\ files' = Put(files, tm, Text("syncing"))
              /\ touched' = Set(touched, p, touched[p] \cup {tm})
              /\ pc' = Set(pc, p, "list")
              /\ UNCHANGED result
           \/ /\ RaiseRaw(p, OSError("write in-progress marker"))
              /\ UNCHANGED <<files, touched>>

\* line 69: the paginator fetches the next page, fails, or is exhausted; the
\* bucket holds some of `objs`
ListPageFrom(p, objs) ==
    LET avail == MatchingIn(objs, prefix[p]) \ listed[p]
        calls == storeCalls[p]
    IN  /\ pc[p] = "list"
        /\ statusOut' = NoStatus
        /\ UNCHANGED rj
        /\ UNCHANGED <<fsVars, req, prefix, bytes_written, object_count,
                       result, touched, wiped, passed>>
        /\ \/ \E S \in SUBSET avail :
                /\ Cardinality(S) <= MaxPage
                /\ Cardinality(listed[p] \cup S) <= MaxObjects
                /\ S = {} => calls.list = 0
                /\ page' = Set(page, p, S)
                /\ listed' = Set(listed, p, listed[p] \cup S)
                /\ storeCalls' = Set(storeCalls, p, [calls EXCEPT !.list = @ + 1])
                /\ pc' = Set(pc, p, IF S = {} THEN "list" ELSE "object")
                /\ UNCHANGED exc
           \/ /\ exc' = Set(exc, p, ClientError("list"))
              /\ storeCalls' = Set(storeCalls, p, [calls EXCEPT !.list = @ + 1])
              /\ pc' = Set(pc, p, "finally")
              /\ UNCHANGED <<page, listed>>
           \/ /\ calls.list > 0
              /\ pc' = Set(pc, p, "complete")
              /\ UNCHANGED <<page, listed, exc, storeCalls>>

\* line 69, for a bucket that may hold any of Objects
ListPage(p) == ListPageFrom(p, Objects)

\* a mutant of the placeholder test: nothing is skipped for its trailing "/"
IsPlaceholderNever(key) == FALSE

\* line 72: key.endswith("/")
IsPlaceholder(key) == EndsWithSlash(key)

\* line 77: dest = local_path / rel_key
Dest(dataset_id, rel_key) == local_path(dataset_id) \o Segments(rel_key)

\* lines 70-81: one object of the page is skipped or downloaded
Object(p) ==
    /\ pc[p] = "object"
    /\ statusOut' = NoStatus
    /\ UNCHANGED rj
    /\ UNCHANGED <<req, prefix, listed, result, wiped, passed>>
    /\ \E obj \in page[p] :
         LET key == obj.Key
             rel_key == RelKey(prefix[p], key)
             dest == Dest(req[p].dataset_id, rel_key)
             made == MkdirParents(Parent(dest))
             target == Resolve(dest)
             rest == page[p] \ {obj}
             calls == storeCalls[p]
         IN  IF IsPlaceholder(key) \/ rel_key = <<>>
             THEN /\ page' = Set(page, p, rest)
                  /\ pc' = Set(pc, p, IF rest = {} THEN "list" ELSE "object")
                  /\ UNCHANGED <<fsVars, bytes_written, object_count, exc,
                                 touched, storeCalls>>
             ELSE \/ /\ made.ok
                     /\ Writable(target, made.dirs)
                     /\ dirs' = made.dirs
                     /\ files' = Put(files, target, Downloaded(key))
                     /\ touched' = Set(touched, p,
                            touched[p] \cup (made.dirs \ dirs) \cup {target})
                     /\ storeCalls' = Set(storeCalls, p,
                            [calls EXCEPT !.download = @ + 1])
                     /\ bytes_written' = Set(bytes_written, p,
                            bytes_written[p] + obj.Size)
                     /\ object_count' = Set(object_count, p, object_count[p] + 1)
                     /\ page' = Set(page, p, rest)
                     /\ pc' = Set(pc, p, IF rest = {} THEN "list" ELSE "object")
                     /\ UNCHANGED exc
                  \/ /\ dirs' = made.dirs
                     /\ touched' = Set(touched, p, touched[p] \cup (made.dirs \ dirs))
                     /\ exc' = Set(exc, p,
                            IF ~made.ok THEN OSError("mkdir")
                            ELSE IF ~Writable(target, made.dirs)
                                 THEN OSError("download")
                                 ELSE ClientError("download"))
                     /\ storeCalls' = Set(storeCalls, p,
                            IF made.ok THEN [calls EXCEPT !.download = @ + 1]
                            ELSE calls)
                     /\ pc' = Set(pc, p, "finally")
                     /\ UNCHANGED <<files, bytes_written, object_count, page>>

\* line 83: marker_file.write_text("complete\n")
MarkComplete(p) ==
    LET mf == marker_file(req[p].dataset_id)
    IN  /\ pc[p] = "complete"
        /\ statusOut' = NoStatus
        /\ UNCHANGED rj
        /\ UNCHANGED <<dirs, req, prefix, page, listed, bytes_written,
                       object_count, result, wiped, passed, storeCalls>>
        /\ pc' = Set(pc, p, "finally")
        /\ \/ /\ Writable(mf, dirs)
              /\ files' = Put(files, mf, Text("complete"))
              /\ touched' = Set(touched, p, touched[p] \cup {mf})
              /\ UNCHANGED exc
           \/ /\ exc' = Set(exc, p, OSError("write completion marker"))
              /\ UNCHANGED <<files, touched>>

\* lines 84-96: the in-progress marker is removed if it exists; then the
\* caught exception is raised as SyncError, or the result is returned
Finally(p) ==
    LET dataset_id == req[p].dataset_id
        tm == temp_marker(dataset_id)
    IN  /\ pc[p] = "finally"
        /\ statusOut' = NoStatus
        /\ UNCHANGED rj
        /\ UNCHANGED <<dirs, req, prefix, page, listed, bytes_written,
                       object_count, exc, touched, wiped, passed, storeCalls>>
        /\ pc' = Set(pc, p, "done")
        /\ files' = IF tm \in DOMAIN files THEN Without(files, {tm}) ELSE files
        /\ result' = Set(result, p,
               IF tm \in dirs THEN Raw(OSError("unlink"))
               ELSE IF exc[p] # NoExc THEN SyncError(exc[p])
               ELSE [kind |-> "return", datasetId |-> dataset_id,
                     localPath |-> local_path(dataset_id),
                     alreadySynced |-> FALSE,
                     bytesWritten |-> bytes_written[p],
                     objectCount |-> object_count[p]])

\* the caller takes the result; the call's locals are gone
Return(p) ==
    /\ pc[p] = "done"
    /\ pc' = Set(pc, p, "idle")
    /\ req' = Set(req, p, NoReq)
    /\ prefix' = Set(prefix, p, <<>>)
    /\ page' = Set(page, p, {})
    /\ listed' = Set(listed, p, {})
    /\ bytes_written' = Set(bytes_written, p, 0)
    /\ object_count' = Set(object_count, p, 0)
    /\ exc' = Set(exc, p, NoExc)
    /\ result' = Set(result, p, NoResult)
    /\ touched' = Set(touched, p, {})
    /\ wiped' = Set(wiped, p, FALSE)
    /\ passed' = Set(passed, p, <<>>)
    /\ storeCalls' = Set(storeCalls, p, NoCalls)
    /\ statusOut' = NoStatus
    /\ UNCHANGED rj
    /\ UNCHANGED fsVars

(***************************************************************************)
(* dataset_status.                                                         *)
(***************************************************************************)
None == [some |-> FALSE]
Some(path) == [some |-> TRUE, path |-> path]

\* a mutant of dataset_status: a running or abandoned sync hides the dataset
dataset_status_unless_in_progress(dataset_id) ==
    IF Exists(marker_file(dataset_id)) /\ ~Exists(temp_marker(dataset_id))
    THEN Some(local_path(dataset_id))
    ELSE None

\* lines 99-105
dataset_status(dataset_id) ==
    IF Exists(marker_file(dataset_id)) THEN Some(local_path(dataset_id)) ELSE None

\* a status query, at any moment
Status(dataset_id) ==
    /\ statusOut' = [asked |-> TRUE, dataset_id |-> dataset_id,
                     value |-> dataset_status(dataset_id)]
    /\ UNCHANGED <<fsVars, pc, req, prefix, page, listed, bytes_written,
                   object_count, exc, result, touched, wiped, passed, storeCalls,
                   rj>>

(***************************************************************************)
(* _sync_from_r2 of rp_handler.py, the handler's own download of a         *)
(* dataset, one action per step of the call.  It keeps its datasets under  *)
(* its own root.                                                           *)
(***************************************************************************)
\* local_root = os.environ.get("DATASET_ROOT", "/workspace/datasets")
HANDLER_ROOT == << <<"w">> >>

\* local_path = os.path.join(local_root, dataset_id)
h_local_path(dataset_id) == HANDLER_ROOT \o Segments(dataset_id)

\* marker_file = os.path.join(local_path, ".sync_complete")
h_marker_file(dataset_id) == h_local_path(dataset_id) \o Segments(SYNC_COMPLETE)

RuntimeError(what) == [type |-> "RuntimeError", msg |-> what]

\* lines 96-108: without boto3 or without the R2 settings the call raises
\* RuntimeError before it touches anything
HStart(p, dataset_id, raw) ==
    /\ pc[p] = "idle"
    /\ req' = Set(req, p, [dataset_id |-> dataset_id, overwrite |-> FALSE])
    /\ prefix' = Set(prefix, p, raw)
    /\ passed' = Set(passed, p, raw)
    /\ statusOut' = NoStatus
    /\ UNCHANGED rj
    /\ UNCHANGED <<fsVars, page, listed, bytes_written, object_count, exc,
                   touched, wiped, storeCalls>>
    /\ \/ /\ pc' = Set(pc, p, "h_makedirs")
          /\ UNCHANGED result
       \/ RaiseRaw(p, RuntimeError("R2 settings"))

\* lines 111-119 and 137-138: the dataset directory is made, then the
\* completion marker is looked up; an existing marker returns at once
HMakedirs(p) ==
    LET dataset_id == req[p].dataset_id
        made == MkdirParents(h_local_path(dataset_id))
    IN  /\ pc[p] = "h_makedirs"
        /\ statusOut' = NoStatus
        /\ UNCHANGED rj
        /\ UNCHANGED <<files, req, prefix, page, listed, exc, wiped, passed,
                       storeCalls>>
        /\ bytes_written' = Set(bytes_written, p, 0)
        /\ object_count' = Set(object_count, p, 0)
        /\ \/ /\ made.ok
              /\ dirs' = made.dirs
              /\ touched' = Set(touched, p, touched[p] \cup (made.dirs \ dirs))
              /\ IF h_marker_file(dataset_id) \in made.dirs \cup DOMAIN files
                 THEN /\ pc' = Set(pc, p, "done")
                      /\ result' = Set(result, p,
                             [kind |-> "return",
                              localPath |-> h_local_path(dataset_id)])
                 ELSE /\ pc' = Set(pc, p, "h_list")
                      /\ UNCHANGED result
           \/ /\ RaiseRaw(p, OSError("makedirs"))
              /\ UNCHANGED <<dirs, touched>>

\* lines 134-140: the paginator fetches the next page under Prefix=prefix as
\* it was passed, fails with ClientError (raised as RuntimeError, lines
\* 167-168), or is exhausted; the bucket holds all of `bucket`
HListPage(p, bucket) ==
    LET all == MatchingIn(bucket, prefix[p])
        avail == all \ listed[p]
        calls == storeCalls[p]
    IN  /\ pc[p] = "h_list"
        /\ statusOut' = NoStatus
        /\ UNCHANGED rj
        /\ UNCHANGED <<fsVars, req, prefix, bytes_written, object_count,
                       touched, wiped, passed>>
        /\ \/ \E S \in SUBSET avail :
                /\ Cardinality(S) <= MaxPage
                /\ Cardinality(listed[p] \cup S) <= MaxObjects
                /\ S = {} => calls.list = 0 /\ all = {}
                /\ page' = Set(page, p, S)
                /\ listed' = Set(listed, p, listed[p] \cup S)
                /\ storeCalls' = Set(storeCalls, p, [calls EXCEPT !.list = @ + 1])
                /\ pc' = Set(pc, p, IF S = {} THEN "h_list" ELSE "h_object")
                /\ UNCHANGED <<exc, result>>
           \/ /\ exc' = Set(exc, p, ClientError("list"))
              /\ storeCalls' = Set(storeCalls, p, [calls EXCEPT !.list = @ + 1])
              /\ RaiseRaw(p, RuntimeError("R2 sync failed"))
              /\ UNCHANGED <<page, listed>>
           \/ /\ calls.list > 0
              /\ listed[p] = all
              /\ pc' = Set(pc, p, "h_marker")
              /\ UNCHANGED <<page, listed, exc, storeCalls, result>>

\* local_file = os.path.join(local_path, rel_path)
HDest(dataset_id, rel_path) == h_local_path(dataset_id) \o Segments(rel_path)

\* lines 141-158: one object of the page is skipped or downloaded; only a
\* ClientError is raised as RuntimeError, any other exception leaves the call
\* as it is
HObject(p) ==
    /\ pc[p] = "h_object"
    /\ statusOut' = NoStatus
    /\ UNCHANGED rj
    /\ UNCHANGED <<req, prefix, listed, wiped, passed>>
    /\ \E obj \in page[p] :
         LET key == obj.Key
             rel_path == RelKey(prefix[p], key)
             local_file == HDest(req[p].dataset_id, rel_path)
             made == MkdirParents(Parent(local_file))
             target == Resolve(local_file)
             rest == page[p] \ {obj}
             calls == storeCalls[p]
         IN  IF key = prefix[p] \/ EndsWithSlash(key) \/ rel_path = <<>>
             THEN /\ page' = Set(page, p, rest)
                  /\ pc' = Set(pc, p, IF rest = {} THEN "h_list" ELSE "h_object")
                  /\ UNCHANGED <<fsVars, bytes_written, object_count, exc,
                                 result, touched, storeCalls>>
             ELSE \/ /\ made.ok
                     /\ Writable(target, made.dirs)
                     /\ dirs' = made.dirs
                     /\ files' = Put(files, target, Downloaded(key))
                     /\ touched' = Set(touched, p,
                            touched[p] \cup (made.dirs \ dirs) \cup {target})
                     /\ storeCalls' = Set(storeCalls, p,
                            [calls EXCEPT !.download = @ + 1])
                     /\ object_count' = Set(object_count, p, object_count[p] + 1)
                     /\ bytes_written' = Set(bytes_written, p,
                            bytes_written[p] + obj.Size)
                     /\ page' = Set(page, p, rest)
                     /\ pc' = Set(pc, p, IF rest = {} THEN "h_list" ELSE "h_object")
                     /\ UNCHANGED <<exc, result>>
                  \/ /\ dirs' = made.dirs
                     /\ touched' = Set(touched, p, touched[p] \cup (made.dirs \ dirs))
                     /\ exc' = Set(exc, p,
                            IF ~made.ok THEN OSError("makedirs")
                            ELSE IF ~Writable(target, made.dirs)
                                 THEN OSError("download")
                                 ELSE ClientError("download"))
                     /\ storeCalls' = Set(storeCalls, p,
                            IF made.ok THEN [calls EXCEPT !.download = @ + 1]
                            ELSE calls)
                     /\ RaiseRaw(p, IF exc'[p].type = "ClientError"
                                    THEN RuntimeError("R2 sync failed")
                                    ELSE exc'[p])
                     /\ UNCHANGED <<files, bytes_written, object_count, page>>

\* lines 160-165: the completion marker is written with the counters in its
\* text and local_path is returned
HMarkComplete(p) ==
    LET dataset_id == req[p].dataset_id
        mf == h_marker_file(dataset_id)
    IN  /\ pc[p] = "h_marker"
        /\ statusOut' = NoStatus
        /\ UNCHANGED rj
        /\ UNCHANGED <<dirs, req, prefix, page, listed, bytes_written,
                       object_count, exc, wiped, passed, storeCalls>>
        /\ \/ /\ Writable(mf, dirs)
              /\ files' = Put(files, mf,
                     [src |-> "text", text |-> "Synced",
                      objects |-> object_count[p], bytes |-> bytes_written[p]])
              /\ touched' = Set(touched, p, touched[p] \cup {mf})
              /\ pc' = Set(pc, p, "done")
              /\ result' = Set(result, p,
                     [kind |-> "return", localPath |-> h_local_path(dataset_id)])
           \/ /\ RaiseRaw(p, OSError("write completion marker"))
              /\ UNCHANGED <<files, touched>>

(***************************************************************************)
(* run_jobs of rp_handler.py: the jobs of config_file_list run one after   *)
(* another.                                                                *)
(***************************************************************************)
\* the most config files one run_jobs call is given
MaxJobs == 2

\* the config files a caller may name
ConfigFiles == {"c1", "c2"}

\* the lists run_jobs may be given
ConfigFileLists == UNION { [1..n -> ConfigFiles] : n \in 0..MaxJobs }

\* how get_job, job.run and job.cleanup of one config file end: normally,
\* with an Exception, with KeyboardInterrupt, or with another BaseException
\* such as SystemExit
Outcomes == {"ok", "Exception", "KeyboardInterrupt", "SystemExit"}

\* everything but the run_jobs call
syncVars == <<dirs, files, pc, req, prefix, page, listed, bytes_written,
              object_count, exc, result, touched, wiped, passed, storeCalls,
              statusOut>>

\* lines 196-200 and the status the loop body gives it
Summary(config_file, status, error) ==
    [config_file |-> config_file, status |-> status, error |-> error]

\* a mutant of lines 225 and 238: a failed job never ends the run
ReraisesNever(recover) == FALSE

\* lines 225 and 238: if not recover
Reraises(recover) == ~recover

\* lines 171-193: the counters and the responses start empty; without dry_run
\* get_job is imported, which may fail
RunJobsStart(config_file_list, recover, dry_run) ==
    /\ rj.pc = "idle"
    /\ UNCHANGED syncVars
    /\ \/ rj' = [pc |-> "loop", config_file_list |-> config_file_list,
                 recover |-> recover, dry_run |-> dry_run, i |-> 1,
                 jobs_completed |-> 0, jobs_failed |-> 0, responses |-> <<>>,
                 outcomes |-> <<>>]
       \/ /\ ~dry_run
          /\ rj' = [pc |-> "raised", config_file_list |-> config_file_list,
                    recover |-> recover, dry_run |-> dry_run, i |-> 1,
                    jobs_completed |-> 0, jobs_failed |-> 0, responses |-> <<>>,
                    outcomes |-> <<>>, error |-> "ImportError"]

\* lines 195-241: one turn of the loop.  In a dry run the config file is
\* skipped.  Otherwise its job runs: it is counted completed, or failed with
\* status "failed" (Exception) or "stopped" (KeyboardInterrupt) and, without
\* recover, raised again before its summary is appended; any other
\* BaseException is caught by neither handler.
Job(outcome) ==
    /\ rj.pc = "loop"
    /\ rj.i <= Len(rj.config_file_list)
    /\ UNCHANGED syncVars
    /\ LET config_file == rj.config_file_list[rj.i]
           next == [rj EXCEPT !.i = @ + 1]
           ran == [next EXCEPT !.outcomes = Append(@, outcome)]
           status == IF outcome = "KeyboardInterrupt" THEN "stopped" ELSE "failed"
       IN  IF rj.dry_run
           THEN rj' = [next EXCEPT !.responses = Append(@,
                          [config_file |-> config_file, status |-> "skipped",
                           error |-> "None", note |-> "Dry run"])]
           ELSE IF outcome = "ok"
           THEN rj' = [ran EXCEPT
                          !.jobs_completed = @ + 1,
                          !.responses = Append(@,
                              Summary(config_file, "completed", "None"))]
           ELSE IF outcome = "SystemExit"
           THEN rj' = [rj EXCEPT !.outcomes = Append(@, outcome),
                                 !.pc = "raised"]
                      @@ [error |-> outcome]
           ELSE IF Reraises(rj.recover)
           THEN rj' = [rj EXCEPT !.outcomes = Append(@, outcome),
                                 !.jobs_failed = @ + 1,
                                 !.pc = "raised"]
                      @@ [error |-> outcome]
           ELSE rj' = [ran EXCEPT
                          !.jobs_failed = @ + 1,
                          !.responses = Append(@,
                              Summary(config_file, status, outcome))]

\* lines 243-250: the loop has ended; the results are returned
RunJobsReturn ==
    /\ rj.pc = "loop"
    /\ rj.i > Len(rj.config_file_list)
    /\ UNCHANGED syncVars
    /\ rj' = [rj EXCEPT !.pc = "returned"]
               @@ [out |-> [results |-> rj.responses,
                            jobs_completed |-> rj.jobs_completed,
                            jobs_failed |-> rj.jobs_failed,
                            refresh_worker |-> rj.jobs_failed > 0]]

\* the caller takes what run_jobs returned or raised
RunJobsTaken ==
    /\ rj.pc \in {"returned", "raised"}
    /\ UNCHANGED syncVars
    /\ rj' = NoRun

\* the call has returned or raised and its result is with the caller
Returned(p) == pc[p] = "done"

(***************************************************************************)
(* The specifications.  In Spec the calls run one after another on the     *)
(* datasets of Datasets.                                                   *)
(***************************************************************************)
Step(p, ids, observe) ==
    \/ \E d \in ids, raw \in RawPrefixes, ow \in BOOLEAN :
          Start(p, d, raw, ow, observe)
    \/ Rmtree(p)
    \/ MkdirLocal(p)
    \/ MarkInProgress(p)
    \/ ListPage(p)
    \/ Object(p)
    \/ MarkComplete(p)
    \/ Finally(p)
    \/ Return(p)

Next == \E p \in SeqProcs : Step(p, Datasets, FALSE)

Spec == Init /\ [][Next]_vars

\* In SpecStatus the calls run one after another on one dataset, and a status
\* query of that dataset may come between any two steps of a call.
NextStatus ==
    \/ \E p \in SeqProcs : Step(p, {D}, FALSE)
    \/ Status(D)

SpecStatus == Init /\ [][NextStatus]_vars

\* In SpecPrefix the calls run one after another on one dataset, and the
\* prefix each call was passed is kept beside the call for comparison.
NextPrefix == \E p \in SeqProcs : Step(p, {D}, TRUE)

SpecPrefix == Init /\ [][NextPrefix]_vars

\* a step of a call for dataset d with prefix "p/" and an overwrite flag of
\* `ows`, against a bucket that holds the objects of `bucket` only
Work(p, d, ows, bucket) ==
    \/ \E ow \in ows : Start(p, d, P, ow, FALSE)
    \/ Rmtree(p)
    \/ MkdirLocal(p)
    \/ MarkInProgress(p)
    \/ ListPageFrom(p, bucket)
    \/ Object(p)
    \/ MarkComplete(p)
    \/ Finally(p)

\* a step of such a call, or the caller taking its result
StepIn(p, d, bucket) ==
    \/ Work(p, d, BOOLEAN, bucket)
    \/ Return(p)

\* a bucket with an ordinary object and the object whose key climbs out
ApartBucket ==
    { o \in Objects :
        o.Key \in { P \o <<"a">>,
                    P \o DOTDOT \o <<SLASH>> \o E \o <<SLASH>> \o SYNC_IN_PROGRESS } }

\* the dataset each concurrent call of SpecApart works on
DatasetOf(p) == IF p = 1 THEN D ELSE E

\* In SpecApart two calls on different datasets run concurrently: their
\* filesystem and object-store steps interleave in every order.

\* the bucket each concurrent call of SpecApart reads
BucketOf(p) ==
    IF p = 1 THEN ApartBucket ELSE { o \in Objects : o.Key = P \o <<"a">> }

NextApart == \E p \in Procs : StepIn(p, DatasetOf(p), BucketOf(p))

SpecApart == Init /\ [][NextApart]_vars

\* a bucket with an ordinary object and an object named like the completion
\* marker
RetryBucket ==
    { o \in Objects : o.Key \in { P \o <<"a">>, P \o SYNC_COMPLETE } }

\* In SpecRetry call 1 makes attempts on dataset D; when one has ended, call 2
\* may follow it on the same dataset without overwrite, while the outcome of
\* the attempt it follows stays with call 1.
NextRetry ==
    \/ pc[2] = "idle" /\ StepIn(1, D, RetryBucket)
    \/ Returned(1) /\ Work(2, D, {FALSE}, RetryBucket)
    \/ pc[2] = "done" /\ Return(1)
    \/ pc[1] = "idle" /\ Return(2)

SpecRetry == Init /\ [][NextRetry]_vars

\* a bucket with the placeholder of "p/" and two objects whose keys differ
\* in the number of "/" after the prefix: "p/a" and "p//a"
KeysBucket ==
    { [Key |-> P, Size |-> 0],
      [Key |-> P \o <<"a">>, Size |-> 1],
      [Key |-> P \o <<SLASH, "a">>, Size |-> 32] }

\* In SpecKeys the calls run one after another on dataset D against that
\* bucket.
NextKeys == \E p \in SeqProcs : StepIn(p, D, KeysBucket)

SpecKeys == Init /\ [][NextKeys]_vars

\* a bucket with one ordinary object
SameBucket == { o \in Objects : o.Key = P \o <<"a">> }

\* the bucket holds all of `bucket` throughout: the listing of call p ends
\* only when it has delivered every object of it
ListsAll(p, bucket) == pc'[p] = "complete" => listed[p] = bucket

\* In SpecSame two calls on the same dataset run concurrently against a
\* bucket that does not change: their filesystem and object-store steps
\* interleave in every order.
NextSame ==
    \E p \in Procs : StepIn(p, D, SameBucket) /\ ListsAll(p, SameBucket)

SpecSame == Init /\ [][NextSame]_vars

\* a bucket with placeholders and one ordinary object
PlainBucket ==
    { o \in Objects : o.Key \in { P, P \o <<"s", SLASH>>, P \o <<"a">> } }

\* In SpecPlain the calls run one after another on dataset D against a
\* bucket whose contents may change between the calls.
NextPlain == \E p \in SeqProcs : StepIn(p, D, PlainBucket)

SpecPlain == Init /\ [][NextPlain]_vars

\* a bucket with an object under "p/" and an object whose key begins with
\* "p" but is not under "p/"
HandlerBucket ==
    { o \in Objects : o.Key \in { P \o <<"a">>, <<"p", "q">> } }

\* what lies under the directory `base`, by relative path: directories and
\* files (the text of a marker file is not compared)
RelTree(base) ==
    [dirs |-> { DropFirst(x, Len(base)) : x \in { y \in dirs : IsUnder(y, base) } },
     files |-> { DropFirst(x, Len(base)) :
                    x \in { y \in DOMAIN files : IsUnder(y, base) } }]

\* In SpecHandler call 1 is sync_dataset without overwrite and call 2 is
\* _sync_from_r2, on the same dataset id, each under its own root.  They work
\* in rounds: a round starts when the two dataset directories hold the same;
\* sync_dataset runs, then _sync_from_r2 runs with the same prefix against the
\* same unchanged bucket, then both results are taken.
NextHandler ==
    \/ /\ pc[2] = "idle"
       /\ RelTree(local_path(D)) = RelTree(h_local_path(D))
       /\ \E raw \in RawPrefixes : Start(1, D, raw, FALSE, TRUE)
    \/ Rmtree(1)
    \/ MkdirLocal(1)
    \/ MarkInProgress(1)
    \/ /\ ListPageFrom(1, HandlerBucket)
       /\ ListsAll(1, MatchingIn(HandlerBucket, prefix[1]))
    \/ Object(1)
    \/ MarkComplete(1)
    \/ Finally(1)
    \/ Returned(1) /\ HStart(2, D, passed[1])
    \/ HMakedirs(2)
    \/ HListPage(2, HandlerBucket)
    \/ HObject(2)
    \/ HMarkComplete(2)
    \/ pc[2] = "done" /\ Return(1)
    \/ pc[1] = "idle" /\ Return(2)

SpecHandler == Init /\ [][NextHandler]_vars

\* In SpecJobs run_jobs is called again and again, with every list of config
\* files, both values of recover and of dry_run, and every pattern of job
\* outcomes.
NextJobs ==
    \/ \E l \in ConfigFileLists, recover \in BOOLEAN, dry_run \in BOOLEAN :
          RunJobsStart(l, recover, dry_run)
    \/ \E outcome \in Outcomes : Job(outcome)
    \/ RunJobsReturn
    \/ RunJobsTaken

SpecJobs == Init /\ [][NextJobs]_vars

(***************************************************************************)
(* Properties.                                                             *)
(***************************************************************************)
\* the objects of `objs` that line 72 and line 75 do not skip under prefix pre
NonPlaceholders(objs, pre) ==
    { o \in objs : ~EndsWithSlash(o.Key) /\ RelKey(pre, o.Key) # <<>> }

\* the file localPath/relativeKey of an object
FileOf(dataset_id, pre, obj) == Resolve(Dest(dataset_id, RelKey(pre, obj.Key)))

RECURSIVE SumSizes(_)
SumSizes(objs) ==
    IF objs = {} THEN 0
    ELSE LET o == CHOOSE x \in objs : TRUE IN o.Size + SumSizes(objs \ {o})

\* C1: once a call has ended and the completion marker it wrote exists, every
\* non-placeholder object its listing returned is a file at
\* localPath/relativeKey.
C1_MarkerImpliesMirrored ==
    \A p \in Procs :
        LET d == req[p].dataset_id
        IN  (/\ Returned(p)
             /\ marker_file(d) \in DOMAIN files
             /\ marker_file(d) \in touched[p])
            => \A o \in NonPlaceholders(listed[p], prefix[p]) :
                   FileOf(d, prefix[p], o) \in DOMAIN files

\* C2: a call without overwrite on a dataset whose completion marker exists
\* returns alreadySynced=true with both counters 0 in one step, issues no
\* listing and no download, and leaves every file and directory as it was.
C2_AlreadySyncedNoOp ==
    [][\A p \in Procs :
          (/\ pc[p] = "idle"
           /\ pc'[p] # "idle"
           /\ ~req'[p].overwrite
           /\ marker_file(req'[p].dataset_id) \in DOMAIN files)
          => /\ pc'[p] = "done"
             /\ result'[p].kind = "return"
             /\ result'[p].alreadySynced
             /\ result'[p].bytesWritten = 0
             /\ result'[p].objectCount = 0
             /\ storeCalls'[p] = NoCalls
             /\ UNCHANGED fsVars]_vars

\* C2 witness: an already-synced return while the marker exists
C2_Witness ==
    /\ Returned(1)
    /\ result[1].kind = "return"
    /\ result[1].alreadySynced
    /\ marker_file(req[1].dataset_id) \in DOMAIN files
    /\ DOMAIN files # {marker_file(req[1].dataset_id)}

\* C3: a call in which a listing or download call failed raises SyncError and
\* leaves neither the completion marker nor the in-progress marker.
C3_FailureLeavesNoMarker ==
    \A p \in Procs :
        (Returned(p) /\ exc[p].type = "ClientError")
        => /\ result[p].kind = "raise"
           /\ result[p].type = "SyncError"
           /\ ~Exists(marker_file(req[p].dataset_id))
           /\ ~Exists(temp_marker(req[p].dataset_id))

\* the call is past line 57 and did not stop there
PastWipe(p) ==
    /\ pc[p] \in {"mkdir", "mark", "list", "object", "complete", "finally", "done"}
    /\ ~(Returned(p) /\ result[p] = Raw(OSError("rmtree")))
    /\ ~(Returned(p) /\ result[p].kind = "return" /\ result[p].alreadySynced)

\* C4: in a call with overwrite=true that got past the recursive delete,
\* from before its first listing call to its end, everything in the subtree of
\* localPath (localPath itself, files, both markers) was created by this very
\* call: nothing an earlier call wrote is left.
C4_OverwriteRebuilds ==
    \A p \in Procs :
        (req[p].overwrite /\ PastWipe(p))
        => \A x \in dirs \cup DOMAIN files :
               IsUnder(x, local_path(req[p].dataset_id)) => x \in touched[p]

\* C4 witness: an overwriting call removed an existing localPath, downloaded
\* again and returned
C4_Witness ==
    /\ Returned(1)
    /\ req[1].overwrite
    /\ wiped[1]
    /\ result[1].kind = "return"
    /\ result[1].objectCount > 0

\* C5: a successful call that did the work reports as objectCount the number
\* of listed objects that are no placeholders and as bytesWritten the sum of
\* their sizes; both are functions of the set of listed objects alone, whatever
\* the pages and the order they came in.
C5_CountsMatchListing ==
    \A p \in Procs :
        (Returned(p) /\ result[p].kind = "return" /\ ~result[p].alreadySynced)
        => LET counted == NonPlaceholders(listed[p], prefix[p])
           IN  /\ listed[p] \subseteq Matching(prefix[p])
               /\ result[p].objectCount = Cardinality(counted)
               /\ result[p].bytesWritten = SumSizes(counted)

\* C5 witness: two pages, a placeholder among the listed objects, one object
\* counted
C5_Witness ==
    /\ Returned(1)
    /\ result[1].kind = "return"
    /\ ~result[1].alreadySynced
    /\ storeCalls[1].list = 2
    /\ \E o \in listed[1] : EndsWithSlash(o.Key)
    /\ result[1].objectCount = 1
    /\ result[1].bytesWritten = 1

\* the call is between writing the in-progress marker and removing it
Attempting(p) == pc[p] \in {"list", "object", "complete", "finally"}

\* C6: the in-progress marker is gone when a call returns or raises from the
\* try block, and it exists only during an attempt on its dataset.
C6_InProgressEphemeral ==
    /\ \A p \in Procs :
           (Returned(p) /\ (result[p].kind = "return" \/ exc[p] # NoExc))
           => ~Exists(temp_marker(req[p].dataset_id))
    /\ \A d \in Datasets :
           Exists(temp_marker(d))
           => \E p \in Procs : req[p].dataset_id = d /\ Attempting(p)

\* C7: whatever fails, the call raises SyncError.
C7_OnlySyncError ==
    \A p \in Procs :
        (Returned(p) /\ result[p].kind = "raise") => result[p].type = "SyncError"

\* C8: every path a call for dataset d creates or writes lies in
\* datasetRoot/d.
C8_WritesStayInside ==
    \A p \in Procs :
        \A x \in touched[p] : IsUnder(x, local_path(req[p].dataset_id))

\* the prefix p with "/" added at its end, at its start, or both
Variants(r) ==
    { r \o <<SLASH>>, <<SLASH>> \o r, <<SLASH, SLASH>> \o r,
      <<SLASH>> \o r \o <<SLASH>> }

\* the call has normalized its prefix (line 60)
Normalized(p) ==
    \/ Attempting(p)
    \/ Returned(p) /\ result[p].kind = "return" /\ ~result[p].alreadySynced
    \/ Returned(p) /\ exc[p] # NoExc

\* C9: a call passed a non-empty prefix p without a trailing "/" lists under
\* the prefix that p + "/" and "/" + p normalize to, and its files and counters
\* are those computed from that prefix; what follows line 60 reads the
\* normalized prefix alone.
C9_PrefixVariantsAgree ==
    \A p \in Procs :
        (Normalized(p) /\ passed[p] # <<>> /\ ~EndsWithSlash(passed[p]))
        => \A v \in Variants(passed[p]) :
               LET n == NormalizePrefix(v)
                   d == req[p].dataset_id
               IN  /\ prefix[p] = n
                   /\ listed[p] \subseteq Matching(n)
                   /\ (Returned(p) /\ result[p].kind = "return")
                      => /\ \A o \in NonPlaceholders(listed[p], n) :
                                FileOf(d, n, o) \in touched[p]
                         /\ result[p].objectCount
                                = Cardinality(NonPlaceholders(listed[p], n))
                         /\ result[p].bytesWritten
                                = SumSizes(NonPlaceholders(listed[p], n))

\* C9 witness: a call passed "/p" downloaded an object of "p/" and returned
C9_Witness ==
    /\ Returned(1)
    /\ passed[1] = <<SLASH, "p">>
    /\ result[1].kind = "return"
    /\ result[1].objectCount = 1
    /\ local_path(D) \o << <<"a">> >> \in DOMAIN files

\* C10: a status query answers the local path exactly when the completion
\* marker exists, whatever the in-progress marker and whatever a running call
\* is doing, and changes neither the filesystem nor any call.
C10_StatusReflectsCompleteOnly ==
    [][statusOut'.asked =>
          LET d == statusOut'.dataset_id
              complete == marker_file(d) \in DOMAIN files \/ marker_file(d) \in dirs
          IN  /\ statusOut'.value.some = complete
              /\ complete => statusOut'.value.path = DATASET_ROOT \o <<d>>
              /\ UNCHANGED <<fsVars, pc, storeCalls, result>>]_vars

\* C10 witness: a query during a running sync, the in-progress marker
\* present, answered with the absent value
C10_Witness ==
    /\ statusOut.asked
    /\ ~statusOut.value.some
    /\ Exists(temp_marker(statusOut.dataset_id))
    /\ \E p \in Procs : req[p].dataset_id = statusOut.dataset_id /\ pc[p] = "object"

\* what the filesystem holds in the subtree of dataset d
Tree(d) ==
    [dirs |-> { x \in dirs : IsUnder(x, local_path(d)) },
     files |-> [x \in { y \in DOMAIN files : IsUnder(y, local_path(d)) }
                  |-> files[x]]]

\* the step is a step of call p
Moved(p) ==
    \/ pc'[p] # pc[p]
    \/ page'[p] # page[p]
    \/ storeCalls'[p] # storeCalls[p]

\* C11: of two concurrent calls on different datasets, no step of one call
\* creates, overwrites or removes a file, directory or marker in the subtree
\* of the other call's dataset, so each call sees in its own subtree what it
\* would see alone.
C11_CallsStayApart ==
    [][\A p \in Procs : \A q \in Procs \ {p} :
          Moved(p) => Tree(DatasetOf(q))' = Tree(DatasetOf(q))]_vars

\* the listed objects call p has gone through without a failure
Completed(p) == NonPlaceholders(listed[p] \ page[p], prefix[p])

\* a listing or download call of p failed
StoreCallFailed(p) == exc[p] # NoExc /\ exc[p].msg \in {"list", "download"}

\* C12: a call that ends after a failed listing or download call has issued
\* no store call after the failed one, has issued a download only for objects
\* all of whose predecessors were downloaded, and leaves on disk every file
\* whose download it completed.
C12_FailureStopsAndKeeps ==
    \A p \in Procs :
        (Returned(p) /\ StoreCallFailed(p))
        => /\ result[p].kind = "raise"
           /\ storeCalls[p].download
                  = Cardinality(Completed(p))
                    + (IF exc[p].msg = "download" THEN 1 ELSE 0)
           /\ object_count[p] = Cardinality(Completed(p))
           /\ \A o \in Completed(p) :
                  FileOf(req[p].dataset_id, prefix[p], o) \in DOMAIN files

\* C13: a call without overwrite that follows an attempt on the same dataset
\* which raised SyncError never returns alreadySynced; when it succeeds it has
\* listed anew, has issued a download for every non-placeholder object of the
\* listing, and reports objectCount and bytesWritten over all of them, the
\* files on disk since the failed attempt included.
C13_RetryStartsAfresh ==
    (/\ Returned(1)
     /\ exc[1] # NoExc
     /\ Returned(2)
     /\ result[2].kind = "return")
    => LET all == NonPlaceholders(listed[2], prefix[2])
       IN  /\ ~result[2].alreadySynced
           /\ storeCalls[2].list >= 1
           /\ storeCalls[2].download = Cardinality(all)
           /\ result[2].objectCount = Cardinality(all)
           /\ result[2].bytesWritten = SumSizes(all)

\* the objects a call with prefix `pre` is to pass over: the key ends in "/",
\* equals the prefix, or is empty once the prefix and leading "/" are removed
PassedOver(objs, pre) ==
    { o \in objs :
        \/ EndsWithSlash(o.Key)
        \/ o.Key = pre
        \/ LStripSlash(DropFirst(o.Key, Len(pre))) = <<>> }

\* C14: at every moment of a call past line 60, the downloads issued and both
\* counters come from the visited objects that are not passed over, one
\* download each (the one that failed included), and nothing comes from an
\* object that is passed over; a call that returns has visited every listed
\* object.
C14_PlaceholdersSkipped ==
    \A p \in Procs :
        Normalized(p)
        => LET visited == listed[p] \ page[p]
               rest == visited \ PassedOver(visited, prefix[p])
               failing == IF exc[p] # NoExc /\ exc[p].msg = "download"
                          THEN 1 ELSE 0
           IN  /\ object_count[p] = Cardinality(rest)
               /\ bytes_written[p] = SumSizes(rest)
               /\ storeCalls[p].download = Cardinality(rest) + failing
               /\ (Returned(p) /\ result[p].kind = "return") => page[p] = {}

\* C14 witness: a call returned after its listing delivered the object whose
\* key is the prefix itself and an ordinary object, which alone was counted
C14_Witness ==
    /\ Returned(1)
    /\ result[1].kind = "return"
    /\ ~result[1].alreadySynced
    /\ \E o \in listed[1] : o.Key = prefix[1]
    /\ result[1].objectCount = 1
    /\ storeCalls[1].download = 1

\* C15: among the objects a call has downloaded, distinct keys have distinct
\* relative keys and distinct destination paths, every downloaded file still
\* holds the object it was downloaded from, and the files written are as many
\* as objectCount.
C15_DistinctDestinations ==
    \A p \in Procs :
        Normalized(p)
        => LET d == req[p].dataset_id
               got == Completed(p)
           IN  /\ \A o1, o2 \in got :
                      o1 # o2 => /\ RelKey(prefix[p], o1.Key) # RelKey(prefix[p], o2.Key)
                                 /\ FileOf(d, prefix[p], o1) # FileOf(d, prefix[p], o2)
               /\ \A o \in got :
                      FileOf(d, prefix[p], o) \in DOMAIN files
                      => files[FileOf(d, prefix[p], o)] = Downloaded(o.Key)
               /\ Cardinality({ FileOf(d, prefix[p], o) : o \in got })
                      = object_count[p]

\* C16: no object a call has downloaded lies at the path of the completion
\* marker or of the in-progress marker of its dataset, and when the call has
\* ended every file it downloaded and counted is on disk with the object's
\* content: neither marker write nor the cleanup has replaced or removed it.
C16_MarkersApartFromObjects ==
    \A p \in Procs :
        Normalized(p)
        => LET d == req[p].dataset_id
           IN  \A o \in Completed(p) :
                   LET f == FileOf(d, prefix[p], o)
                   IN  /\ f # marker_file(d)
                       /\ f # temp_marker(d)
                       /\ Returned(p)
                          => f \in DOMAIN files /\ files[f] = Downloaded(o.Key)

\* C17: when two calls on one dataset, run against a bucket that does not
\* change, have both ended and the completion marker exists, every
\* non-placeholder object of the bucket is a file at its relative path.
C17_OverlapKeepsMirror ==
    (/\ Returned(1)
     /\ Returned(2)
     /\ req[1].dataset_id = req[2].dataset_id
     /\ marker_file(D) \in DOMAIN files)
    => \A o \in NonPlaceholders(SameBucket, P) :
           FileOf(D, P, o) \in DOMAIN files

\* the files in the subtree of dataset d, the completion marker apart
MirrorFiles(d) ==
    { f \in DOMAIN files : IsUnder(f, local_path(d)) /\ f # marker_file(d) }

\* C18 as stated: after a successful call that did the work the files under
\* localPath, the completion marker apart, are exactly the files of the
\* objects downloaded in that call.
C18_OnlyThisCallsFiles ==
    \A p \in Procs :
        (Returned(p) /\ result[p].kind = "return" /\ ~result[p].alreadySynced)
        => LET d == req[p].dataset_id
           IN  MirrorFiles(d)
                   = { FileOf(d, prefix[p], o) :
                           o \in NonPlaceholders(listed[p], prefix[p]) }

\* C18 amended: no step of a call with overwrite=false removes a file, the
\* in-progress marker of its dataset apart; the files earlier attempts left
\* are still there when it returns.
C18_NoOverwriteKeepsFiles ==
    [][\A p \in Procs :
          (/\ Moved(p)
           /\ req'[p].dataset_id # <<>>
           /\ ~req'[p].overwrite)
          => \A f \in DOMAIN files :
                 f # temp_marker(req'[p].dataset_id) => f \in DOMAIN files']_vars

\* C18 witness: a call without overwrite returned from a sync that downloaded
\* nothing while the file of an earlier attempt is under localPath
C18_Witness ==
    /\ Returned(1)
    /\ ~req[1].overwrite
    /\ result[1].kind = "return"
    /\ ~result[1].alreadySynced
    /\ result[1].objectCount = 0
    /\ local_path(D) \o << <<"a">> >> \in DOMAIN files

\* C19: when sync_dataset without overwrite and _sync_from_r2 have run from
\* the same directory state with the same prefix against the same bucket, then
\* if both returned, their dataset directories hold the same files at the same
\* relative paths and the same completion marker state, and either both or
\* neither issued object-store calls; if both raised, the completion marker is
\* in the same state in both.
C19_HandlerEquivalent ==
    (Returned(1) /\ Returned(2) /\ passed[1] = passed[2])
    => LET complete == Exists(marker_file(D))
           h_complete == Exists(h_marker_file(D))
       IN  /\ (result[1].kind = "return" /\ result[2].kind = "return")
              => /\ RelTree(local_path(D)) = RelTree(h_local_path(D))
                 /\ storeCalls[1] = NoCalls <=> storeCalls[2] = NoCalls
           /\ result[1].kind = result[2].kind => (complete <=> h_complete)

\* the outcomes that are failures of a job
Failures == Outcomes \ {"ok"}

\* C20: when run_jobs has returned from a run that was no dry run, its
\* results hold one entry per config file, in input order, each with status
\* completed, failed or stopped, jobs_completed + jobs_failed is the number of
\* config files and refresh_worker is jobs_failed > 0; without recover no job
\* runs after a failed one, the failed job's error is raised, and run_jobs
\* returns only when no job failed.
C20_RunJobsAccounting ==
    /\ (rj.pc = "returned" /\ ~rj.dry_run)
       => LET n == Len(rj.config_file_list)
              out == rj.out
          IN  /\ Len(out.results) = n
              /\ \A k \in 1..n :
                     /\ out.results[k].config_file = rj.config_file_list[k]
                     /\ out.results[k].status \in {"completed", "failed", "stopped"}
                     /\ out.results[k].status = "completed"
                            <=> rj.outcomes[k] = "ok"
              /\ out.jobs_completed + out.jobs_failed = n
              /\ out.refresh_worker <=> out.jobs_failed > 0
              /\ ~rj.recover => out.jobs_failed = 0
    /\ (rj.pc # "idle" /\ ~rj.dry_run /\ ~rj.recover)
       => LET m == Len(rj.outcomes)
          IN  /\ \A k \in 1..m : rj.outcomes[k] \in Failures => k = m
              /\ (m > 0 /\ rj.outcomes[m] \in Failures)
                 => /\ rj.pc = "raised"
                    /\ rj.error = rj.outcomes[m]

\* C20 witness: with recover, a run of two config files returned after the
\* first job failed and the second completed
C20_Witness ==
    /\ rj.pc = "returned"
    /\ ~rj.dry_run
    /\ rj.recover
    /\ rj.outcomes = <<"Exception", "ok">>
    /\ rj.out.results[1].status = "failed"
    /\ rj.out.results[2].status = "completed"
    /\ rj.out.refresh_worker

=============================================================================
